---------------------------- MODULE Spec2Model ----------------------------
(***************************************************************************)
(* A model of the attrition pipeline: the DataLoader (CSV parsing,         *)
(* feature engineering, stratified split, scaling, augmentation), the      *)
(* GRUClassifier (build / fit with early stopping / predict / evaluate)    *)
(* and the App event handlers that drive them.                             *)
(*                                                                         *)
(* Numbers.  JavaScript numbers are modelled as exact rationals plus NaN:  *)
(* [nan, n, d] with d > 0 and n/d in lowest terms (d = 0 for +Infinity).   *)
(* The inputs are small                                                    *)
(* integers, for which every comparison the code makes (floor, round, >)   *)
(* gives the same answer in IEEE doubles as in exact arithmetic.           *)
(***************************************************************************)
EXTENDS Integers, Sequences, FiniteSets, TLC

\* --------------------------------------------------------------- bounds
\* Largest number of data rows in a generated dataset.
MaxRows == 4

\* --------------------------------------------------------------- state
VARIABLES
  dl,     \* the DataLoader object: its fields
  load,   \* outcome of the last fromFile call: "none", "loaded" or its error
  prep,   \* the last prepareTensors call: arguments, locals, outcome, result
  gru,    \* the GRUClassifier object: its fields
  rt,     \* the tf runtime: resources handed out and disposed, model flags
  fits,   \* the fit calls that have not returned yet, each with its locals
  app,    \* the App object: dataset, history, and the buttons it enabled
  out     \* the last call or step: its outcome, for some its arguments and result

loaderVars == <<dl, load, prep>>
clientVars == <<gru, rt, fits, app, out>>
vars == <<dl, load, prep, gru, rt, fits, app, out>>

\* ------------------------------------------------------------- numbers
NaN == [nan |-> TRUE, n |-> 0, d |-> 1]

Abs(i) == IF i < 0 THEN -i ELSE i

RECURSIVE GCD(_, _)
GCD(a, b) == IF b = 0 THEN a ELSE GCD(b, a % b)

\* The rational n/d (d # 0) in lowest terms with a positive denominator.
Rat(n, d) ==
  LET s == IF d < 0 THEN -1 ELSE 1
      g == GCD(Abs(n), Abs(d))
  IN  [nan |-> FALSE, n |-> (s * n) \div g, d |-> (s * d) \div g]

Num(i) == [nan |-> FALSE, n |-> i, d |-> 1]

RAdd(a, b) == IF a.nan \/ b.nan THEN NaN ELSE Rat(a.n * b.d + b.n * a.d, a.d * b.d)
RSub(a, b) == IF a.nan \/ b.nan THEN NaN ELSE Rat(a.n * b.d - b.n * a.d, a.d * b.d)
RMul(a, b) == IF a.nan \/ b.nan THEN NaN ELSE Rat(a.n * b.n, a.d * b.d)
\* x / y.  The program only divides by Math.max(1, .) results, by 1 - ratio
\* with ratio <= 0.8 and by counts >= 1, so y = 0 does not arise; 0/0 is NaN.
RDiv(a, b) == IF a.nan \/ b.nan \/ b.n = 0 THEN NaN ELSE Rat(a.n * b.d, a.d * b.n)
\* a < b and a > b; every comparison with NaN is false.
RLess(a, b) == ~a.nan /\ ~b.nan /\ a.n * b.d < b.n * a.d
\* Math.max(a, b) and Math.min(a, b): NaN if either argument is NaN.
RMax(a, b) == IF a.nan \/ b.nan THEN NaN ELSE IF RLess(a, b) THEN b ELSE a
RMin(a, b) == IF a.nan \/ b.nan THEN NaN ELSE IF RLess(b, a) THEN b ELSE a
\* Math.floor and Math.round (round half up) of a non-NaN number, as integers.
RFloor(a) == a.n \div a.d
RRound(a) == (2 * a.n + a.d) \div (2 * a.d)
IMax(a, b) == IF a < b THEN b ELSE a
IMin(a, b) == IF a < b THEN a ELSE b

\* ---------------------------------------------------------- sequences
RECURSIVE SeqSum(_)
SeqSum(s) == IF s = <<>> THEN Num(0) ELSE RAdd(Head(s), SeqSum(Tail(s)))

\* arr.slice(from) and arr.slice(0, to) on 1-based sequences, 0-based bounds.
SliceFrom(arr, from) == SubSeq(arr, from + 1, Len(arr))
SliceTo(arr, to) == SubSeq(arr, 1, to)

Indices(s) == [i \in 1..Len(s) |-> i]

\* The 0-based indices i, ascending, of the labels that are 1 (positive)
\* or are not (negative).
LabelIdx(labels, positive) ==
  LET hits == SelectSeq(Indices(labels), LAMBDA i : (labels[i] = 1) = positive)
  IN  [k \in DOMAIN hits |-> hits[k] - 1]

Range(s) == {s[i] : i \in DOMAIN s}

\* ------------------------------------------------------------ CSV text
\* A text is a sequence of characters.  A character is a one-character
\* string; a word that holds no separator ("Attrition", "Yes", "4") is
\* carried as one unit, since the parser never looks inside it.
LF == "\n"
CR == "\r"
COMMA == ","
SPACE == " "

\* text.replace(/\r\n/g,'\n').replace(/\r/g,'\n'): a CR before an LF goes,
\* any other CR becomes an LF.
NormalizeNewlines(text) ==
  LET kept == SelectSeq(Indices(text),
                        LAMBDA i : ~(text[i] = CR /\ i < Len(text) /\ text[i + 1] = LF))
  IN  [k \in DOMAIN kept |-> IF text[kept[k]] = CR THEN LF ELSE text[kept[k]]]

\* String.prototype.split(sep) for a one-character separator: the pieces
\* between consecutive separators.
Split(s, sep) ==
  LET cuts == SelectSeq(Indices(s), LAMBDA i : s[i] = sep)
  IN  [k \in 1..(Len(cuts) + 1) |->
         SubSeq(s, IF k = 1 THEN 1 ELSE cuts[k - 1] + 1,
                   IF k = Len(cuts) + 1 THEN Len(s) ELSE cuts[k] - 1)]

\* Array.prototype.filter(Boolean) on strings: the empty string is dropped.
FilterNonEmpty(ss) == SelectSeq(ss, LAMBDA l : l # <<>>)

RECURSIVE TrimLeft(_)
TrimLeft(f) == IF f # <<>> /\ Head(f) = SPACE THEN TrimLeft(Tail(f)) ELSE f
RECURSIVE TrimRight(_)
TrimRight(f) ==
  IF f # <<>> /\ f[Len(f)] = SPACE THEN TrimRight(SubSeq(f, 1, Len(f) - 1)) ELSE f
RECURSIVE Join(_)
Join(f) == IF f = <<>> THEN "" ELSE Head(f) \o Join(Tail(f))
\* String.prototype.trim(), giving the field as a string.
Trim(f) == Join(TrimRight(TrimLeft(f)))

\* obj[headers[j]] = parts[j].trim() for j = 0..: a later duplicate header wins.
RowObject(headers, parts) ==
  [k \in Range(headers) |->
     LET j == CHOOSE j \in DOMAIN headers :
                /\ headers[j] = k
                /\ \A j2 \in DOMAIN headers : headers[j2] = k => j2 <= j
     IN  Trim(parts[j])]

\* DataLoader.#parseCSV: [ok |-> FALSE] for 'CSV has no data.', else the
\* headers and the rows whose field count matches the header's.
ParseCSV(text) ==
  LET lines == FilterNonEmpty(Split(NormalizeNewlines(text), LF))
      hparts == Split(lines[1], COMMA)
      headers == [j \in DOMAIN hparts |-> Trim(hparts[j])]
      good == SelectSeq(Tail(lines), LAMBDA l : Len(Split(l, COMMA)) = Len(hparts))
  IN  IF Len(lines) < 2 THEN [ok |-> FALSE, headers |-> <<>>, rows |-> <<>>]
      ELSE [ok |-> TRUE, headers |-> headers,
            rows |-> [i \in DOMAIN good |-> RowObject(headers, Split(good[i], COMMA))]]

\* ------------------------------------------------- DataLoader constants
labelKey == "Attrition"

baseNum == <<"Age", "DailyRate", "DistanceFromHome", "Education",
             "EnvironmentSatisfaction", "HourlyRate", "JobInvolvement", "JobLevel",
             "JobSatisfaction", "MonthlyIncome", "MonthlyRate", "NumCompaniesWorked",
             "PercentSalaryHike", "PerformanceRating", "RelationshipSatisfaction",
             "StockOptionLevel", "TotalWorkingYears", "TrainingTimesLastYear",
             "WorkLifeBalance", "YearsAtCompany", "YearsInCurrentRole",
             "YearsSinceLastPromotion", "YearsWithCurrManager">>

dropped == <<"EmployeeNumber", "EmployeeCount", "StandardHours", "Over18">>

catKnown == <<"BusinessTravel", "Department", "EducationField", "Gender", "JobRole",
              "MaritalStatus", "OverTime">>

engineeredSpec == <<"TenureRatio", "NoPromotionRatio", "IncomePerLevel",
                    "OvertimeStress", "TravelFreq", "IsSingle", "LongDistance">>

metaFields == <<"EmployeeNumber", "JobRole", "OverTime", "YearsAtCompany", "MonthlyIncome">>

\* attritionMap[String(v || 'No')] ?? 0
AttritionOf(v) == IF v = "Yes" THEN 1 ELSE 0

\* ------------------------------------------------------ field values
\* Number(s) for the field strings of the model: the decimal literals it
\* uses, '' (which is 0), and anything else (which is NaN).
Literals ==
  ("0" :> 0) @@ ("1" :> 1) @@ ("2" :> 2) @@ ("3" :> 3) @@ ("4" :> 4) @@
  ("5" :> 5) @@ ("6" :> 6) @@ ("20" :> 20) @@ ("21" :> 21)

ToNumber(s) ==
  IF s = "" THEN Num(0)
  ELSE IF s \in DOMAIN Literals THEN Num(Literals[s]) ELSE NaN

\* Number(r[col] ?? dflt): a column the row does not have is undefined.
NumberField(r, col, dflt) == IF col \in DOMAIN r THEN ToNumber(r[col]) ELSE Num(dflt)
\* r[col] ?? ''
StringField(r, col) == IF col \in DOMAIN r THEN r[col] ELSE ""
\* Number.isFinite(v) ? v : 0
FiniteOrZero(v) == IF v.nan THEN Num(0) ELSE v

\* The strings of the model in UTF-16 code unit order, the order of
\* Array.prototype.sort() without a comparator.
CodeUnitOrder ==
  <<"", "0", "1", "2", "20", "21", "3", "4", "5", "6", "No", "Research", "Sales",
    "Single", "Travel_Frequently", "Yes", "abc">>

SortedValues(S) == SelectSeq(CodeUnitOrder, LAMBDA v : v \in S)

IndexOf(seq, v) == CHOOSE i \in DOMAIN seq : seq[i] = v

\* DataLoader.#fitCategoricals: per categorical column the sorted distinct
\* values; enc[v] is the 0-based position of v in that list.
FitCategoricals(rows, catCols) ==
  [c \in Range(catCols) |->
     SortedValues({StringField(rows[i], c) : i \in DOMAIN rows})]

RECURSIVE Flatten(_)
Flatten(ss) == IF ss = <<>> THEN <<>> ELSE Head(ss) \o Flatten(Tail(ss))

\* featureOrder: base numerics, engineered, then `${c}__${v}` per encoder.
FeatureOrder(catCols, encoders) ==
  baseNum \o engineeredSpec \o
  Flatten([k \in DOMAIN catCols |->
             [i \in DOMAIN encoders[catCols[k]] |->
                catCols[k] \o "__" \o encoders[catCols[k]][i]]])

\* DataLoader.#rowToFeatures
RowToFeatures(r, catCols, encoders) ==
  LET base == [k \in DOMAIN baseNum |-> FiniteOrZero(NumberField(r, baseNum[k], 0))]
      YA == RMax(Num(1), NumberField(r, "YearsAtCompany", 0))
      TW == RMax(Num(1), NumberField(r, "TotalWorkingYears", 0))
      YP == NumberField(r, "YearsSinceLastPromotion", 0)
      JL == RMax(Num(1), NumberField(r, "JobLevel", 1))
      MI == NumberField(r, "MonthlyIncome", 0)
      JS == NumberField(r, "JobSatisfaction", 0)
      DF == NumberField(r, "DistanceFromHome", 0)
      OT == IF StringField(r, "OverTime") = "Yes" THEN 1 ELSE 0
      BT == StringField(r, "BusinessTravel")
      MS == StringField(r, "MaritalStatus")
      TenureRatio == RDiv(NumberField(r, "YearsAtCompany", 0), TW)
      NoPromotionRatio == RDiv(YP, YA)
      IncomePerLevel == RDiv(MI, JL)
      OvertimeStress == RMul(Num(OT), RSub(Num(4), JS))
      TravelFreq == IF BT = "Travel_Frequently" THEN 1 ELSE 0
      IsSingle == IF MS = "Single" THEN 1 ELSE 0
      LongDistance == IF RLess(Num(20), DF) THEN 1 ELSE 0
      eng == <<TenureRatio, NoPromotionRatio, IncomePerLevel, OvertimeStress,
               Num(TravelFreq), Num(IsSingle), Num(LongDistance)>>
      onehot ==
        Flatten([k \in DOMAIN catCols |->
                   LET enc == encoders[catCols[k]]
                       val == StringField(r, catCols[k])
                   IN  [i \in DOMAIN enc |-> IF enc[i] = val THEN Num(1) ELSE Num(0)]])
  IN  [v |-> base \o eng \o onehot,
       y |-> AttritionOf(IF labelKey \in DOMAIN r /\ r[labelKey] # "" THEN r[labelKey] ELSE "No")]

\* ---------------------------------------------------- stratified split
\* The shuffle's generator, seed = (seed*1664525 + 1013904223) % 2**32, on
\* a seed kept as two 16-bit halves: 1664525 = LcgMulHi*2^16 + LcgMulLo and
\* 1013904223 = LcgAddHi*2^16 + LcgAddLo.  The products stay below 2^53 in
\* the code, so its double arithmetic is exact.
Half == 65536
LcgMulHi == 25
LcgMulLo == 26125
LcgAddHi == 15470
LcgAddLo == 62303
Seed0 == 1337

SeedOf(i) == [hi |-> i \div Half, lo |-> i % Half]

LcgNext(seed) ==
  LET low == seed.lo * LcgMulLo + LcgAddLo
  IN  [lo |-> low % Half,
       hi |-> (seed.hi * LcgMulLo + seed.lo * LcgMulHi + LcgAddHi + low \div Half) % Half]

\* Math.floor((seed / 2**32) * m)
RandBelow(seed, m) == (seed.hi * m + (seed.lo * m) \div Half) \div Half

Swap(arr, a, b) == [arr EXCEPT ![a] = arr[b], ![b] = arr[a]]

\* for (i = arr.length-1; i > 0; i--) { j = floor(rand()*(i+1)); swap(i, j) }
RECURSIVE ShuffleFrom(_, _, _)
ShuffleFrom(arr, i, seed) ==
  IF i <= 0 THEN arr
  ELSE LET s2 == LcgNext(seed)
           j == RandBelow(s2, i + 1)
       IN  ShuffleFrom(Swap(arr, i + 1, j + 1), i - 1, s2)

\* Mutant of Shuffle: the seed is declared outside shuffle, so a later
\* preparation goes on from where the generator was left.
ShuffleCarriedSeed(arr) ==
  ShuffleFrom(arr, Len(arr) - 1,
              IF prep.status = "none" THEN SeedOf(Seed0) ELSE LcgNext(SeedOf(Seed0)))

\* shuffle(arr): every call starts again from seed 1337.
Shuffle(arr) == ShuffleFrom(arr, Len(arr) - 1, SeedOf(Seed0))

\* Math.min(Math.max(testSplit, 0.05), 0.9)
ClampTestSplit(testSplit) == RMin(RMax(testSplit, Rat(5, 100)), Rat(9, 10))

\* Mutant of TestCounts: the test size is rounded, not floored.
TestCountsRounded(n, p, testSplit) ==
  LET nTest == IMax(1, RRound(RMul(Num(n), ClampTestSplit(testSplit))))
      testPos == IMax(0, IMin(RRound(RMul(Num(nTest), Rat(p, IMax(1, n)))), p))
      testNeg == IMin(nTest - testPos, n - p)
  IN  [nTest |-> nTest, testPos |-> testPos, testNeg |-> testNeg]

\* nTest, testPos, testNeg of prepareTensors, for n rows of which p positive.
TestCounts(n, p, testSplit) ==
  LET nTest == IMax(1, RFloor(RMul(Num(n), ClampTestSplit(testSplit))))
      testPos == IMax(0, IMin(RRound(RMul(Num(nTest), Rat(p, IMax(1, n)))), p))
      testNeg == IMin(nTest - testPos, n - p)
  IN  [nTest |-> nTest, testPos |-> testPos, testNeg |-> testNeg]

\* Mutant of SplitIndices: the negative bucket is cut at testPos.
SplitIndicesAtTestPos(posIdx, negIdx, testPos, testNeg) ==
  [testIdx |-> SliceTo(posIdx, testPos) \o SliceTo(negIdx, testNeg),
   trainIdx |-> SliceFrom(posIdx, testPos) \o SliceFrom(negIdx, testPos)]

\* testIdx and trainIdx from the shuffled buckets.
SplitIndices(posIdx, negIdx, testPos, testNeg) ==
  [testIdx |-> SliceTo(posIdx, testPos) \o SliceTo(negIdx, testNeg),
   trainIdx |-> SliceFrom(posIdx, testPos) \o SliceFrom(negIdx, testNeg)]

\* -------------------------------------------------------------- scaler
\* A standard deviation Math.sqrt(Math.max(1e-9, variance)) is kept as its
\* radicand: "eps" when the variance is below the floor, "sqrt" of rad
\* otherwise, "nan" when the variance is NaN.
EpsDen == 1000000000

StdOf(var) ==
  IF var.nan THEN [kind |-> "nan", rad |-> NaN]
  ELSE IF var.n <= (var.d - 1) \div EpsDen THEN [kind |-> "eps", rad |-> Num(0)]
  ELSE [kind |-> "sqrt", rad |-> var]

\* The loops of #fitScaler: per column the mean s/n and the deviation
\* sqrt(max(1e-9, s2/n - mean*mean)) over the rows of X.
ScalerStats(X) ==
  LET d == IF X = <<>> THEN 0 ELSE Len(X[1])
      n == IF X = <<>> THEN 1 ELSE Len(X)
      s(j) == SeqSum([i \in DOMAIN X |-> X[i][j]])
      s2(j) == SeqSum([i \in DOMAIN X |-> RMul(X[i][j], X[i][j])])
      mean(j) == RDiv(s(j), Num(n))
  IN  [mean |-> [j \in 1..d |-> mean(j)],
       std |-> [j \in 1..d |->
                  StdOf(RSub(RDiv(s2(j), Num(n)), RMul(mean(j), mean(j))))]]

\* Mutant of FitScaler: the statistics are taken over every loaded row,
\* not over the rows it is given.
FitScalerAllRows(X) ==
  CHOOSE sc \in {ScalerStats(all) :
                   all \in {[i \in DOMAIN dl.raw |->
                               RowToFeatures(dl.raw[i], dl.catCols,
                                             FitCategoricals(dl.raw, dl.catCols)).v]}} : TRUE

\* DataLoader.#fitScaler(X): the scaler fitted on the rows X.
FitScaler(X) == ScalerStats(X)

\* A scaled value (v - mean)/std + jit: the numerator, the deviation it is
\* divided by, and the noise the augmenter added (0 for an original row).
\* mean[j] and std[j] of an empty scaler are undefined, which makes NaN.
ScaledValue(v, scaler, j) ==
  IF j \in DOMAIN scaler.mean
    THEN [num |-> RSub(v, scaler.mean[j]), std |-> scaler.std[j], jit |-> Num(0)]
    ELSE [num |-> NaN, std |-> [kind |-> "nan", rad |-> NaN], jit |-> Num(0)]

\* DataLoader.#applyScaler
ApplyScaler(X, scaler) ==
  [i \in DOMAIN X |-> [j \in DOMAIN X[i] |-> ScaledValue(X[i][j], scaler, j)]]

\* -------------------------------------------------------- augmentation
\* gauss() of the d-th draw of stream g0: Math.random is not seeded, so the
\* streams stand for the runs the program can have.
GaussDraw(g0, i) == IF (g0 + i) % 2 = 0 THEN 1 ELSE -1

\* Number(x) || dflt : 0 and NaN are falsy.
NumberOr(x, dflt) == IF x.nan \/ x.n = 0 THEN dflt ELSE x

AugTargetRatio(cfg) == RMin(RMax(NumberOr(cfg.targetRatio, Rat(1, 2)), Rat(2, 10)), Rat(8, 10))
AugNoiseStd(cfg) == RMin(RMax(NumberOr(cfg.noiseStd, Rat(5, 100)), Num(0)), Rat(2, 10))

\* Mutant of AugmentPositivesOnScaled: the noise loop runs over every
\* dimension of the clone, one-hot ones included.
AugmentAllDimensions(Xtr, ytr, numDim, targetRatio, noiseStd, g0) ==
  LET posIdx == LabelIdx([i \in DOMAIN ytr |-> ytr[i][1]], TRUE)
      P == Len(posIdx)
      wantPos == RFloor(RDiv(RMul(targetRatio, Num(Len(ytr) - P)), RSub(Num(1), targetRatio)))
      need == IMax(0, wantPos - P)
      clone(k) ==
        [d \in DOMAIN Xtr[posIdx[(k % P) + 1] + 1] |->
           [Xtr[posIdx[(k % P) + 1] + 1][d] EXCEPT
              !.jit = RAdd(@, RMul(Num(GaussDraw(g0, k * numDim + d - 1)), noiseStd))]]
  IN  IF P = 0 \/ need <= 0 THEN [X |-> Xtr, Y |-> ytr]
      ELSE [X |-> Xtr \o [k \in 1..need |-> clone(k - 1)],
            Y |-> ytr \o [k \in 1..need |-> <<1>>]]

\* DataLoader.#augmentPositivesOnScaled
AugmentPositivesOnScaled(Xtr, ytr, numDim, targetRatio, noiseStd, g0) ==
  LET posIdx == LabelIdx([i \in DOMAIN ytr |-> ytr[i][1]], TRUE)
      negIdx == LabelIdx([i \in DOMAIN ytr |-> ytr[i][1]], FALSE)
      P == Len(posIdx)
      N == Len(negIdx)
      wantPos == RFloor(RDiv(RMul(targetRatio, Num(N)), RSub(Num(1), targetRatio)))
      need == IMax(0, wantPos - P)
      clone(k) ==
        LET base == Xtr[posIdx[(k % P) + 1] + 1]
        IN  [d \in DOMAIN base |->
               IF d <= numDim
                 THEN [base[d] EXCEPT
                         !.jit = RAdd(@, RMul(Num(GaussDraw(g0, k * numDim + d - 1)), noiseStd))]
                 ELSE base[d]]
  IN  IF P = 0 \/ need <= 0 THEN [X |-> Xtr, Y |-> ytr]
      ELSE [X |-> Xtr \o [k \in 1..need |-> clone(k - 1)],
            Y |-> ytr \o [k \in 1..need |-> <<1>>]]

\* -------------------------------------------------- DataLoader object
\* new DataLoader(): scaler null is the empty sequence, a set scaler <<s>>.
NewDataLoader ==
  [headers |-> <<>>, raw |-> <<>>, catCols |-> <<>>, metaRows |-> <<>>,
   encoders |-> <<>>, featureOrder |-> <<>>, scaler |-> <<>>,
   augCfg |-> <<>>, kept |-> <<>>]

NoPrep == [status |-> "none"]

InitLoader ==
  /\ dl = NewDataLoader
  /\ load = "none"
  /\ prep = NoPrep

\* new GRUClassifier(): no model, no input shape.  model is the id of the
\* tf model it holds, 0 for null.
NewClassifier == [model |-> 0, inputShape |-> <<>>]

\* The tf runtime before any tensor or model was made.  next is the id of
\* the next resource made; disposed holds the ids of disposed resources;
\* training and stop hold the ids of the models whose isTraining and
\* stopTraining flags are set; saved tells whether indexeddb holds a model;
\* loading counts the loadLayersModel calls that have not resolved.
NewRuntime ==
  [next |-> 1, disposed |-> {}, training |-> {}, stop |-> {}, saved |-> FALSE,
   loading |-> 0]

NoDataset == [id |-> 0, features |-> 0]

\* new App(...): no dataset, no history.  enabled holds the buttons the App
\* has enabled; the buttons it toggles start disabled, the controls it
\* never toggles (file input, load, reset, auto threshold) are always live.
NewApp == [dataset |-> NoDataset, history |-> <<>>, enabled |-> {}]

Outcome(op, err) == [op |-> op, err |-> err, arg |-> <<>>, ret |-> <<>>]

InitClient ==
  /\ gru = NewClassifier
  /\ rt = NewRuntime
  /\ fits = {}
  /\ app = NewApp
  /\ out = Outcome("", "")

Init == InitLoader /\ InitClient

\* A File handed to fromFile: absent (no file selected), unreadable (the
\* FileReader fails), or readable with a text.
NoFile == [present |-> FALSE, readable |-> FALSE, text |-> <<>>]
Unreadable == [present |-> TRUE, readable |-> FALSE, text |-> <<>>]
TextFile(text) == [present |-> TRUE, readable |-> TRUE, text |-> text]

Allowed(catCols) ==
  Range(baseNum) \cup Range(catCols) \cup {labelKey} \cup Range(metaFields) \cup Range(dropped)

\* The fields fromFile sets from a parsed text with an Attrition header.
LoadedFields(parsed) ==
  LET catCols == SelectSeq(parsed.headers, LAMBDA h : h \in Range(catKnown))
      rawRow(i) == [k \in DOMAIN parsed.rows[i] \cap Allowed(catCols) |-> parsed.rows[i][k]]
  IN  [headers |-> parsed.headers, catCols |-> catCols,
       raw |-> [i \in DOMAIN parsed.rows |-> rawRow(i)],
       metaRows |-> [i \in DOMAIN parsed.rows |->
                       [f \in Range(metaFields) |-> StringField(rawRow(i), f)]]]

\* The error fromFile throws for a file, "" when it throws none.
FromFileError(file, parsed) ==
  IF ~file.present THEN "No file selected."
  ELSE IF ~file.readable THEN "Failed to read file."
  ELSE IF ~parsed.ok THEN "CSV has no data."
  ELSE IF labelKey \notin Range(parsed.headers) THEN "Missing required column: Attrition"
  ELSE ""

\* DataLoader.fromFile(file): a throw leaves the loader as it was.
\* (\E x \in {e} binds x to the value of e.)
FromFile(file) ==
  \E parsed \in {ParseCSV(file.text)} :
  \E err \in {FromFileError(file, parsed)} :
    /\ load' = IF err = "" THEN "loaded" ELSE err
    /\ IF err # "" THEN dl' = dl
       ELSE \E f \in {LoadedFields(parsed)} :
              dl' = [dl EXCEPT !.headers = f.headers, !.catCols = f.catCols,
                               !.raw = f.raw, !.metaRows = f.metaRows]
    /\ UNCHANGED prep

\* augment || { enable:false }; a missing targetRatio or noiseStd is NaN
\* under Number().
NoAugment == [enable |-> FALSE, targetRatio |-> NaN, noiseStd |-> NaN]

Gather(xs, idx) == [k \in DOMAIN idx |-> xs[idx[k] + 1]]
Boxed(xs) == [k \in DOMAIN xs |-> <<xs[k]>>]

\* What the preparations of the records now loaded have produced so far:
\* per call its test fraction, index lists and scaler.  Kept for checking;
\* the program reads none of it.
SeenBefore ==
  IF prep.status \in {"ok", "tensor2d error"} /\ prep.src = dl.raw THEN prep.seen ELSE {}

\* The optional augmentation step of prepareTensors.
MaybeAugment(augment, XtrS, ytr, g0) ==
  IF augment.enable
    THEN AugmentPositivesOnScaled(XtrS, ytr, Len(baseNum) + Len(engineeredSpec),
                                  AugTargetRatio(augment), AugNoiseStd(augment), g0)
    ELSE [X |-> XtrS, Y |-> ytr]

\* DataLoader.prepareTensors({testSplit, augment}), g0 being the Math.random
\* stream it meets.  'Dataset not loaded.' is thrown before anything is set;
\* otherwise _augCfg, encoders, featureOrder and scaler are set even when
\* tf.tensor2d throws (it rejects an empty array), and kept only when the
\* tensors are made.  prep records the arguments, the locals and the result,
\* and in prevSrc the records of the call before it (none: <<>>).
PrepareTensors(testSplit, augment, g0) ==
  IF dl.raw = <<>>
    THEN /\ prep' = [status |-> "Dataset not loaded."]
         /\ UNCHANGED <<dl, load>>
    ELSE
      \E encoders \in {FitCategoricals(dl.raw, dl.catCols)} :
      \E fy \in {[i \in DOMAIN dl.raw |-> RowToFeatures(dl.raw[i], dl.catCols, encoders)]} :
      \E feats \in {[i \in DOMAIN fy |-> fy[i].v]}, labels \in {[i \in DOMAIN fy |-> fy[i].y]} :
      \E posIdx \in {Shuffle(LabelIdx(labels, TRUE))},
         negIdx \in {Shuffle(LabelIdx(labels, FALSE))} :
      \E tc \in {TestCounts(Len(feats), Len(posIdx), testSplit)} :
      \E sp \in {SplitIndices(posIdx, negIdx, tc.testPos, tc.testNeg)} :
      \E Xtr \in {Gather(feats, sp.trainIdx)}, Xte \in {Gather(feats, sp.testIdx)},
         ytr \in {Boxed(Gather(labels, sp.trainIdx))},
         yte \in {Boxed(Gather(labels, sp.testIdx))} :
      \E scaler \in {FitScaler(Xtr)} :
      \E XtrS \in {ApplyScaler(Xtr, scaler)}, XteS \in {ApplyScaler(Xte, scaler)} :
      \E aug \in {MaybeAugment(augment, XtrS, ytr, g0)} :
      \E threw \in {aug.X = <<>> \/ XteS = <<>>} :
        /\ prep' = [status |-> IF threw THEN "tensor2d error" ELSE "ok",
                    prevSrc |-> IF prep.status \in {"ok", "tensor2d error"}
                                  THEN prep.src ELSE <<>>,
                    again |-> testSplit \in {r.testSplit : r \in SeenBefore},
                    seen |-> SeenBefore \cup
                               {[testSplit |-> testSplit, trainIdx |-> sp.trainIdx,
                                 testIdx |-> sp.testIdx, scaler |-> scaler]},
                    src |-> dl.raw, testSplit |-> testSplit, augment |-> augment,
                    posIdx |-> posIdx, negIdx |-> negIdx, nTest |-> tc.nTest,
                    trainIdx |-> sp.trainIdx, testIdx |-> sp.testIdx,
                    Xte |-> Xte, XtrS |-> XtrS, ytr |-> ytr,
                    xTrain |-> aug.X, yTrain |-> aug.Y, xTest |-> XteS, yTest |-> yte,
                    testMeta |-> Gather(dl.metaRows, sp.testIdx)]
        /\ dl' = [dl EXCEPT !.augCfg = <<augment>>, !.encoders = encoders,
                            !.featureOrder = FeatureOrder(dl.catCols, encoders),
                            !.scaler = <<scaler>>,
                            !.kept = IF threw THEN @
                                     ELSE baseNum \o engineeredSpec \o dl.catCols]
        /\ UNCHANGED load

\* ------------------------------------------------ generated datasets
\* The files of the preparation runs: a fixed header and 1..MaxRows rows
\* drawn from RowPool.
PoolHeader == <<"Attrition", "YearsAtCompany", "TotalWorkingYears", "OverTime">>

RowPool ==
  << <<"Yes", "2", "4", "Yes">>,
     <<"No", "4", "4", "No">>,
     <<"Yes", "6", "4", "Yes">> >>

RECURSIVE CsvLine(_)
CsvLine(fields) ==
  IF Len(fields) <= 1 THEN fields ELSE <<Head(fields), COMMA>> \o CsvLine(Tail(fields))

RECURSIVE CsvLines(_)
CsvLines(rows) ==
  IF rows = <<>> THEN <<>> ELSE <<LF>> \o CsvLine(Head(rows)) \o CsvLines(Tail(rows))

\* The CSV text with header PoolHeader and the given rows of fields.
CsvOf(rows) == CsvLine(PoolHeader) \o CsvLines(rows)

Datasets == UNION {[1..n -> Range(RowPool)] : n \in 1..MaxRows}

\* The loaded records as rows of fields again.
FieldsOf(raw) == [i \in DOMAIN raw |-> [k \in DOMAIN PoolHeader |-> raw[i][PoolHeader[k]]]]

\* The test fractions asked for: the default, and one the clamp cuts to 0.9.
TestSplits == {Rat(1, 5), Num(1)}
Augmented == [enable |-> TRUE, targetRatio |-> Rat(8, 10), noiseStd |-> Rat(5, 100)]
GaussStreams == {0, 1}

\* A generated file is loaded into a fresh loader.
LoadDataset ==
  /\ load = "none"
  /\ \E rows \in Datasets : FromFile(TextFile(CsvOf(rows)))
  /\ UNCHANGED clientVars

\* A preparation of the loaded data without augmentation.
PrepareNoAug ==
  /\ load = "loaded"
  /\ \E ts \in TestSplits : PrepareTensors(ts, NoAugment, 0)
  /\ UNCHANGED clientVars

\* A preparation of the loaded data with augmentation.
PrepareAug ==
  /\ load = "loaded"
  /\ \E ts \in TestSplits, g0 \in GaussStreams : PrepareTensors(ts, Augmented, g0)
  /\ UNCHANGED clientVars

\* The rows of the pool that differ from the given row in numeric fields
\* only: same Attrition, same OverTime.
NumericEdits(fields) ==
  {row \in Range(RowPool) : row[1] = fields[1] /\ row[4] = fields[4]}

\* The numeric fields of one row of the file are edited and the file is
\* loaded again, once the data it held has been prepared.
LoadEdited ==
  /\ load = "loaded"
  /\ prep.status = "ok"
  /\ prep.src = dl.raw
  /\ \E fields \in {FieldsOf(dl.raw)} :
     \E i \in DOMAIN fields :
     \E row \in NumericEdits(fields[i]) :
       FromFile(TextFile(CsvOf([fields EXCEPT ![i] = row])))
  /\ UNCHANGED clientVars

\* Preparation runs: one file, prepared any number of times.
NextPrep == LoadDataset \/ PrepareNoAug \/ PrepareAug

SpecPrep == Init /\ [][NextPrep]_vars

\* Edit runs: a file is prepared, edited, loaded and prepared again.
NextEdit == LoadDataset \/ PrepareNoAug \/ LoadEdited

SpecEdit == Init /\ [][NextEdit]_vars

\* ------------------------------------------------------- loaded texts
\* Largest number of characters in a text handed to the parser.
MaxTextLen == 5

TextChars == {"Attrition", "Age", COMMA, LF, CR, SPACE}

Texts == UNION {[1..n -> TextChars] : n \in 0..MaxTextLen}

LoadText ==
  /\ load = "none"
  /\ \E text \in Texts : FromFile(TextFile(text))
  /\ UNCHANGED clientVars

LoadMissing ==
  /\ load \in {"none", "loaded"}
  /\ \E file \in {NoFile, Unreadable} : FromFile(file)
  /\ UNCHANGED clientVars

NextLoad == LoadText \/ LoadMissing

SpecLoad == Init /\ [][NextLoad]_vars


\* ------------------------------------------------------- GRUClassifier
\* Most resources one run may make (tf models and dataset tensors).
MaxIds == 3
\* Most epochs a fit is asked for.
MaxEpochs == 4

Infinity == [nan |-> FALSE, n |-> 1, d |-> 0]
\* Number.isFinite and Number.isInteger
IsFinite(x) == ~x.nan /\ x.d # 0
IsInteger(x) == ~x.nan /\ x.d = 1

\* Losses are counted in units of the tolerance of the improvement test,
\* 1e-6: VL + 1e-6 < best reads VL + Tolerance < best.
Tolerance == Num(1)

DisposedError == "Tensor is disposed."
NoModelErrors == {"Build the model first.", "Model not built."}
InvalidErrors == {"Invalid features", "Invalid timesteps"}
OngoingError == "Cannot start training because another fit() call is ongoing."
NullError == "TypeError: Cannot read properties of null"

\* GRUClassifier.dispose(): the model held, if any, is disposed and dropped.
Dispose(g, r) ==
  IF g.model # 0
    THEN [gru |-> [g EXCEPT !.model = 0],
          rt |-> [r EXCEPT !.disposed = @ \cup {g.model}]]
    ELSE [gru |-> g, rt |-> r]

\* The timesteps of a build configuration: 1 when left out.
TimestepsOf(cfg) == IF cfg.timesteps = <<>> THEN Num(1) ELSE cfg.timesteps[1]

PositiveInteger(x) == IsInteger(x) /\ x.n >= 1

\* Mutant of Build: the model held is disposed before the configuration
\* is looked at.
BuildDisposeFirst(g, r, cfg) ==
  LET d == Dispose(g, r)
  IN  IF ~PositiveInteger(cfg.features)
        THEN [err |-> "Invalid features", gru |-> d.gru, rt |-> d.rt]
      ELSE IF ~PositiveInteger(TimestepsOf(cfg))
        THEN [err |-> "Invalid timesteps", gru |-> d.gru, rt |-> d.rt]
      ELSE [err |-> "",
            gru |-> [model |-> d.rt.next,
                     inputShape |-> <<TimestepsOf(cfg).n, cfg.features.n>>],
            rt |-> [d.rt EXCEPT !.next = @ + 1]]

\* GRUClassifier.build(cfg): the configuration is validated, the model held
\* is disposed, and a new compiled model takes its place.  The layers of
\* the new model (units, layers, lr) do not bear on what follows.
Build(g, r, cfg) ==
  IF ~PositiveInteger(cfg.features)
    THEN [err |-> "Invalid features", gru |-> g, rt |-> r]
  ELSE IF ~PositiveInteger(TimestepsOf(cfg))
    THEN [err |-> "Invalid timesteps", gru |-> g, rt |-> r]
  ELSE LET d == Dispose(g, r)
       IN  [err |-> "",
            gru |-> [model |-> d.rt.next,
                     inputShape |-> <<TimestepsOf(cfg).n, cfg.features.n>>],
            rt |-> [d.rt EXCEPT !.next = @ + 1]]

\* The locals of a fit call that has just entered model.fit.
NewFit(m, x, by, epochs, patience) ==
  [m |-> m, x |-> x, by |-> by,
   epochs |-> IMax(1, epochs), patience |-> patience,
   epoch |-> 0, best |-> Infinity, bad |-> 0,
   hist |-> [loss |-> <<>>, val_loss |-> <<>>], logs |-> <<>>]

\* GRUClassifier.fit up to its first await: the model check, then tf's
\* model.fit, which refuses a model that is training, slices the training
\* tensors for the validation split, and clears stopTraining.
FitStart(g, r, x, by, epochs, patience) ==
  IF g.model = 0
    THEN [err |-> "Build the model first.", rt |-> r, started |-> {}]
  ELSE IF g.model \in r.training
    THEN [err |-> OngoingError, rt |-> r, started |-> {}]
  ELSE IF x \in r.disposed \/ g.model \in r.disposed
    THEN [err |-> DisposedError, rt |-> r, started |-> {}]
  ELSE [err |-> "",
        rt |-> [r EXCEPT !.training = @ \cup {g.model}, !.stop = @ \ {g.model}],
        started |-> {NewFit(g.model, x, by, epochs, patience)}]

\* The onEpochEnd callback of fit on the logs of one epoch: the locals of
\* the fit after it, and whether it tells the model to stop.
OnEpochEnd(f, logs) ==
  LET L == IF logs.loss = <<>> THEN NaN ELSE logs.loss[1]
      VL == IF logs.val_loss = <<>> THEN NaN ELSE logs.val_loss[1]
      improved == RLess(RAdd(VL, Tolerance), f.best)
      best == IF IsFinite(VL) /\ improved THEN VL ELSE f.best
      bad == IF ~IsFinite(VL) THEN f.bad ELSE IF improved THEN 0 ELSE f.bad + 1
  IN  [fit |-> [f EXCEPT !.epoch = @ + 1,
                         !.logs = Append(@, logs),
                         !.hist = [loss |-> Append(f.hist.loss, L),
                                   val_loss |-> IF VL.nan THEN f.hist.val_loss
                                                ELSE Append(f.hist.val_loss, VL)],
                         !.best = best,
                         !.bad = bad],
       stop |-> IsFinite(VL) /\ bad >= IMax(2, f.patience)]

\* GRUClassifier.predict(x) on the model held.
Predict(g, r, x) ==
  IF g.model = 0 THEN "Model not built."
  ELSE IF g.model \in r.disposed \/ x \in r.disposed THEN DisposedError
  ELSE ""

\* GRUClassifier.evaluate({xTest, yTest}): predict, then the counts and
\* the AUC read from the test labels.
Evaluate(g, r, x) == Predict(g, r, x)

\* --------------------------------------------------- steps of a fit
\* What the training backend may report for one epoch: a loss, and a
\* validation loss that improves, stays within the tolerance, is NaN, or
\* is missing.
Logs ==
  { [loss |-> <<Num(5)>>, val_loss |-> <<Num(3)>>],
    [loss |-> <<Num(5)>>, val_loss |-> <<Num(2)>>],
    [loss |-> <<Num(5)>>, val_loss |-> <<Num(0)>>],
    [loss |-> <<NaN>>, val_loss |-> <<NaN>>],
    [loss |-> <<>>, val_loss |-> <<>>] }

\* A fit call ends with an error: tf clears isTraining, the App's #train
\* alerts.
FitThrows(f, err) ==
  /\ fits' = fits \ {f}
  /\ rt' = [rt EXCEPT !.training = @ \ {f.m}]
  /\ out' = Outcome("epoch", err)
  /\ UNCHANGED <<gru, app>>

\* A fit that has not returned runs its next epoch: the backend trains on
\* the model and the training tensors and reports the logs, the callback
\* records them and decides on early stopping, then yields (tf.nextFrame).
FitEpochOn(reported) ==
  \E f \in fits, logs \in reported :
    /\ f.epoch < f.epochs
    /\ f.m \notin rt.stop
    /\ UNCHANGED loaderVars
    /\ IF f.m \in rt.disposed \/ f.x \in rt.disposed
         THEN FitThrows(f, DisposedError)
         ELSE \E e \in {OnEpochEnd(f, logs)} :
                IF e.stop /\ gru.model = 0
                  THEN FitThrows(f, NullError)
                  ELSE /\ fits' = (fits \ {f}) \cup {e.fit}
                       /\ rt' = IF e.stop THEN [rt EXCEPT !.stop = @ \cup {gru.model}]
                                ELSE rt
                       /\ out' = Outcome("epoch", "")
                       /\ UNCHANGED <<gru, app>>

FitEpoch == FitEpochOn(Logs)

\* The loop of model.fit has ended, by count or by stopTraining: fit
\* returns its history; the App's #train keeps it and enables Evaluate.
FitReturn ==
  \E f \in fits :
    /\ f.epoch >= f.epochs \/ f.m \in rt.stop
    /\ fits' = fits \ {f}
    /\ rt' = [rt EXCEPT !.training = @ \ {f.m}]
    /\ out' = [op |-> "fit returned", err |-> "", arg |-> <<>>, ret |-> <<f.hist>>]
    /\ app' = IF f.by = "app"
                THEN [app EXCEPT !.history = <<f.hist>>, !.enabled = @ \cup {"eval"}]
                ELSE app
    /\ UNCHANGED <<gru, loaderVars>>

\* ------------------------------------- the classifier called directly
\* A caller that owns its tensors (id 0, never disposed) and awaits each
\* call before the next.
OwnTensors == 0

BuildConfigs ==
  [timesteps : {<<>>, <<Num(1)>>, <<Num(0)>>, <<Rat(3, 2)>>},
   features : {Num(3), Num(0), Rat(5, 2), NaN}]

Patiences == {2, 3}

GruBuild ==
  /\ fits = {}
  /\ rt.next <= MaxIds
  /\ \E cfg \in BuildConfigs :
     \E b \in {Build(gru, rt, cfg)} :
       /\ gru' = b.gru
       /\ rt' = b.rt
       /\ out' = [op |-> "build", err |-> b.err, arg |-> <<cfg>>, ret |-> <<>>]
  /\ UNCHANGED <<fits, app, loaderVars>>

GruFit ==
  /\ fits = {}
  /\ \E epochs \in 1..MaxEpochs, patience \in Patiences :
     \E s \in {FitStart(gru, rt, OwnTensors, "caller", epochs, patience)} :
       /\ fits' = fits \cup s.started
       /\ rt' = s.rt
       /\ out' = Outcome("fit", s.err)
  /\ UNCHANGED <<gru, app, loaderVars>>

GruPredict ==
  /\ fits = {}
  /\ out' = Outcome("predict", Predict(gru, rt, OwnTensors))
  /\ UNCHANGED <<gru, rt, fits, app, loaderVars>>

GruEvaluate ==
  /\ fits = {}
  /\ out' = Outcome("evaluate", Evaluate(gru, rt, OwnTensors))
  /\ UNCHANGED <<gru, rt, fits, app, loaderVars>>

GruDispose ==
  /\ fits = {}
  /\ \E d \in {Dispose(gru, rt)} :
       /\ gru' = d.gru
       /\ rt' = d.rt
  /\ out' = Outcome("dispose", "")
  /\ UNCHANGED <<fits, app, loaderVars>>

NextGru ==
  GruBuild \/ GruFit \/ FitEpoch \/ FitReturn \/ GruPredict \/ GruEvaluate \/ GruDispose

SpecGru == Init /\ [][NextGru]_vars

\* ----------------------------------------------------------------- App
\* App.#toggleTrainButtons(enable)
ToggleTrainButtons(enabled, enable) ==
  IF enable
    THEN (enabled \cup {"build", "train", "save"}) \ {"eval", "download"}
    ELSE enabled \ {"build", "train", "save", "eval", "download"}

\* tensor.dispose() on the four tensors of the App's dataset, if it has one.
DisposeDataset(r, dataset) ==
  IF dataset.id # 0 THEN [r EXCEPT !.disposed = @ \cup {dataset.id}] ELSE r

\* The files a user may pick: four good rows, and a single row, which
\* leaves the training split without rows.
AppFiles ==
  { TextFile(CsvOf(<<RowPool[1], RowPool[2], RowPool[3], RowPool[2]>>)),
    TextFile(CsvOf(<<RowPool[1]>>)) }

\* What the backend reports to a fit the App started: a validation loss
\* or NaN.
AppLogs ==
  { [loss |-> <<Num(5)>>, val_loss |-> <<Num(3)>>],
    [loss |-> <<NaN>>, val_loss |-> <<NaN>>] }

AppFitEpoch == FitEpochOn(AppLogs)

\* App.#onCSV: the chosen file is loaded; on success Prepare and EDA are
\* enabled, on failure the error is alerted.
OnCSV ==
  /\ \E file \in AppFiles : FromFile(file)
  /\ app' = IF load' = "loaded" THEN [app EXCEPT !.enabled = @ \cup {"prep", "eda"}]
            ELSE app
  /\ out' = Outcome("onCSV", IF load' = "loaded" THEN "" ELSE load')
  /\ UNCHANGED <<gru, rt, fits>>

\* App.#prepare: the tensors of the previous dataset are disposed, then
\* prepareTensors makes the new dataset; if it throws, the error is
\* alerted and this.dataset is left as it was.
AppPrepare ==
  /\ "prep" \in app.enabled
  /\ rt.next <= MaxIds
  /\ PrepareTensors(Rat(1, 5), NoAugment, 0)
  /\ \E r \in {DisposeDataset(rt, app.dataset)} :
       IF prep'.status = "ok"
         THEN /\ rt' = [r EXCEPT !.next = @ + 1]
              /\ app' = [app EXCEPT !.dataset = [id |-> rt.next,
                                                 features |-> Len(prep'.xTrain[1])],
                                    !.enabled = @ \cup {"build"}]
              /\ out' = Outcome("prepare", "")
         ELSE /\ rt' = r
              /\ app' = app
              /\ out' = Outcome("prepare", prep'.status)
  /\ UNCHANGED <<gru, fits>>

\* App.#build: the shape of the dataset's training tensor configures the
\* classifier; a disposed tensor still has its shape.
AppBuild ==
  /\ "build" \in app.enabled
  /\ rt.next <= MaxIds
  /\ IF app.dataset.id = 0 \/ app.dataset.features = 0
       THEN /\ out' = Outcome("build", "Prepare dataset first.")
            /\ UNCHANGED <<gru, rt, app>>
       ELSE \E b \in {Build(gru, rt, [timesteps |-> <<Num(1)>>,
                                      features |-> Num(app.dataset.features)])} :
              /\ gru' = b.gru
              /\ rt' = b.rt
              /\ app' = IF b.err = ""
                          THEN [app EXCEPT !.enabled = ToggleTrainButtons(@, TRUE)]
                          ELSE app
              /\ out' = Outcome("build", b.err)
  /\ UNCHANGED <<fits, loaderVars>>

\* App.#train up to the await of fit.
AppTrain ==
  /\ "train" \in app.enabled
  /\ IF app.dataset.id = 0
       THEN /\ out' = Outcome("fit", NullError)
            /\ UNCHANGED <<rt, fits>>
       ELSE \E epochs \in {1} :
            \E s \in {FitStart(gru, rt, app.dataset.id, "app", epochs, 2)} :
              /\ fits' = fits \cup s.started
              /\ rt' = s.rt
              /\ out' = Outcome("fit", s.err)
  /\ UNCHANGED <<gru, app, loaderVars>>

\* App.#evaluate: evaluate and the predictions for download, both on the
\* model held and the test tensors of the dataset.
AppEvaluate ==
  /\ "eval" \in app.enabled
  /\ \E err \in {IF app.dataset.id = 0 THEN NullError
                 ELSE Evaluate(gru, rt, app.dataset.id)} :
       /\ out' = Outcome("evaluate", err)
       /\ app' = IF err = "" THEN [app EXCEPT !.enabled = @ \cup {"download"}] ELSE app
  /\ UNCHANGED <<gru, rt, fits, loaderVars>>

\* App.#autoThreshold: predict on the test tensor, then the sweep.
AppAutoThreshold ==
  /\ out' = Outcome("predict", IF app.dataset.id = 0 THEN "Prepare & Train first."
                               ELSE Predict(gru, rt, app.dataset.id))
  /\ UNCHANGED <<gru, rt, fits, app, loaderVars>>

\* The save button: GRUClassifier.save().
AppSave ==
  /\ "save" \in app.enabled
  /\ IF gru.model = 0
       THEN /\ out' = Outcome("save", "Build the model first.")
            /\ rt' = rt
       ELSE /\ out' = Outcome("save", "")
            /\ rt' = [rt EXCEPT !.saved = TRUE]
  /\ UNCHANGED <<gru, fits, app, loaderVars>>

\* Most loads pending at once.
MaxLoads == 1

\* The load button, up to the await in GRUClassifier.load(): the model
\* held is disposed and tf.loadLayersModel is pending.
AppLoad ==
  /\ rt.loading < MaxLoads
  /\ \E d \in {Dispose(gru, rt)} :
       /\ gru' = d.gru
       /\ rt' = [d.rt EXCEPT !.loading = @ + 1]
  /\ out' = Outcome("load", "")
  /\ UNCHANGED <<fits, app, loaderVars>>

\* tf.loadLayersModel resolves or rejects: on a stored model the
\* classifier holds the loaded model and the train buttons are enabled.
AppLoaded ==
  /\ rt.loading > 0
  /\ IF rt.saved
       THEN /\ rt.next <= MaxIds
            /\ gru' = [gru EXCEPT !.model = rt.next]
            /\ rt' = [rt EXCEPT !.loading = @ - 1, !.next = @ + 1]
            /\ app' = [app EXCEPT !.enabled = ToggleTrainButtons(@, TRUE)]
            /\ out' = Outcome("loaded", "")
       ELSE /\ rt' = [rt EXCEPT !.loading = @ - 1]
            /\ out' = Outcome("loaded", "Cannot find model in IndexedDB")
            /\ UNCHANGED <<gru, app>>
  /\ UNCHANGED <<fits, loaderVars>>

\* App.#reset: the model and the dataset tensors are disposed, the
\* dataset and the history dropped, the buttons disabled.
AppReset ==
  /\ \E d \in {Dispose(gru, rt)} :
       /\ gru' = d.gru
       /\ rt' = DisposeDataset(d.rt, app.dataset)
  /\ app' = [dataset |-> NoDataset, history |-> <<>>,
             enabled |-> ToggleTrainButtons(app.enabled \ {"prep"}, FALSE)]
  /\ out' = Outcome("reset", "")
  /\ UNCHANGED <<fits, loaderVars>>

NextApp ==
  \/ OnCSV \/ AppPrepare \/ AppBuild \/ AppTrain \/ AppFitEpoch \/ FitReturn
  \/ AppEvaluate \/ AppAutoThreshold \/ AppSave \/ AppLoad \/ AppLoaded \/ AppReset

SpecApp == Init /\ [][NextApp]_vars

\* ------------------------------------------------- feature vectors
\* Files whose fields are empty or not numeric: a fixed header and 1..
\* MaxFitRows rows.  The base numeric columns the header lacks are missing
\* from every record.
MaxFitRows == 2

DirtyTexts ==
  LET header == <<"Attrition", "YearsAtCompany", "JobSatisfaction", "OverTime",
                  "Department">>
      pool == {<<"Yes", ya, js, ot, dep>> :
                 ya \in {"", "abc", "4"}, js \in {"", "abc", "2"},
                 ot \in {"", "Yes"}, dep \in {"", "Sales"}}
  IN  {CsvLine(header) \o CsvLines(rows) :
         rows \in UNION {[1..n -> pool] : n \in 1..MaxFitRows}}

\* The feature vector prepareTensors computes for a record of a loaded
\* file: #fitCategoricals over all the records, then #rowToFeatures of the
\* record.  out holds the record, the categorical columns and the encoders,
\* and the vector and label returned.
FeaturizeRow ==
  /\ \E text \in DirtyTexts :
     \E f \in {LoadedFields(ParseCSV(text))} :
     \E encoders \in {FitCategoricals(f.raw, f.catCols)} :
     \E i \in DOMAIN f.raw :
       out' = [op |-> "rowToFeatures", err |-> "",
               arg |-> <<f.raw[i], f.catCols, encoders>>,
               ret |-> <<RowToFeatures(f.raw[i], f.catCols, encoders)>>]
  /\ UNCHANGED <<loaderVars, gru, rt, fits, app>>

NextRow == FeaturizeRow

SpecRow == Init /\ [][NextRow]_vars

\* ----------------------------------------------------------- metrics
\* Most rows of a test set of the metric runs.
MaxTest == 3

\* yp.map((p,i)=>({p,y:yt[i]})).sort((a,b)=>b.p-a.p), as the row indices in
\* the sorted order: by p descending, equal p in the order of the rows (the
\* sort is stable).
SortDescending(yp) ==
  LET before(i, j) == RLess(yp[j], yp[i]) \/ (yp[i] = yp[j] /\ i < j)
      rank(i) == 1 + Cardinality({j \in DOMAIN yp : before(j, i)})
  IN  [k \in DOMAIN yp |-> CHOOSE i \in DOMAIN yp : rank(i) = k]

\* The mutant of RocAuc for C12: the rate of true positives is taken over
\* the negatives.
RocAucRatesSwapped(yt, yp) ==
  LET order == SortDescending(yp)
      P == Cardinality({i \in DOMAIN yt : yt[i] = 1})
      N == Len(yt) - P
      tp(k) == Cardinality({j \in 1..k : yt[order[j]] = 1})
      roc == <<[fpr |-> Num(0), tpr |-> Num(0)]>> \o
             [k \in DOMAIN yt |-> [fpr |-> Rat(k - tp(k), IMax(1, N)),
                                   tpr |-> Rat(tp(k), IMax(1, N))]] \o
             <<[fpr |-> Num(1), tpr |-> Num(1)]>>
      auc == SeqSum([i \in 1..(Len(roc) - 1) |->
                       RDiv(RMul(RSub(roc[i + 1].fpr, roc[i].fpr),
                                 RAdd(roc[i].tpr, roc[i + 1].tpr)), Num(2))])
  IN  RMax(Num(0), RMin(Num(1), auc))

\* GRUClassifier.#rocAuc(yTrue, yProb) on the columns of the two tensors:
\* the ROC points after each pair in descending order of probability,
\* closed with (1, 1), and the trapezoid sum clamped to [0, 1].
RocAuc(yt, yp) ==
  LET order == SortDescending(yp)
      P == Cardinality({i \in DOMAIN yt : yt[i] = 1})
      N == Len(yt) - P
      tp(k) == Cardinality({j \in 1..k : yt[order[j]] = 1})
      roc == <<[fpr |-> Num(0), tpr |-> Num(0)]>> \o
             [k \in DOMAIN yt |-> [fpr |-> Rat(k - tp(k), IMax(1, N)),
                                   tpr |-> Rat(tp(k), IMax(1, P))]] \o
             <<[fpr |-> Num(1), tpr |-> Num(1)]>>
      auc == SeqSum([i \in 1..(Len(roc) - 1) |->
                       RDiv(RMul(RSub(roc[i + 1].fpr, roc[i].fpr),
                                 RAdd(roc[i].tpr, roc[i + 1].tpr)), Num(2))])
  IN  RMax(Num(0), RMin(Num(1), auc))

\* The counts and scores of predictions p >= t against the labels, as
\* evaluate and #autoThreshold compute them.  In f1 = 2 * prec * rec /
\* Math.max(1e-9, prec + rec) the sum of the two ratios of counts is 0 (and
\* the quotient 0 / 1e-9) or far above 1e-9.  A comparison with NaN is false.
Scores(yt, yp, t) ==
  LET pred(i) == IF ~yp[i].nan /\ ~t.nan /\ ~RLess(yp[i], t) THEN 1 ELSE 0
      count(a, b) == Cardinality({i \in DOMAIN yt : pred(i) = a /\ yt[i] = b})
      tp == count(1, 1)
      fp == count(1, 0)
      fn == count(0, 1)
      prec == Rat(tp, IMax(1, tp + fp))
      rec == Rat(tp, IMax(1, tp + fn))
      f1 == IF RAdd(prec, rec) = Num(0) THEN Num(0)
            ELSE RDiv(RMul(Num(2), RMul(prec, rec)), RAdd(prec, rec))
  IN  [prec |-> prec, rec |-> rec, f1 |-> f1,
       cm |-> [tp |-> tp, tn |-> count(0, 0), fp |-> fp, fn |-> fn]]

\* What evaluate returns for test labels yt when the model predicts yp.
Metrics(yt, yp, threshold) ==
  [auc |-> RocAuc(yt, yp)] @@ Scores(yt, yp, threshold)

\* GRUClassifier.evaluate({xTest, yTest}) at the default threshold on a
\* test set of 1..MaxTest rows, the model predicting yp for xTest: out
\* holds the labels and predictions and the metrics returned.
GruEvaluateTest ==
  /\ fits = {}
  /\ \E yt \in UNION {[1..n -> {0, 1}] : n \in 1..MaxTest} :
     \E yp \in [DOMAIN yt -> {Rat(1, 4), Rat(3, 4)}] :
     \E err \in {Evaluate(gru, rt, OwnTensors)} :
       out' = [op |-> "evaluate", err |-> err, arg |-> <<yt, yp>>,
               ret |-> IF err = "" THEN <<Metrics(yt, yp, Rat(1, 2))>> ELSE <<>>]
  /\ UNCHANGED <<gru, rt, fits, app, loaderVars>>

NextEval == GruBuild \/ GruEvaluateTest

SpecEval == Init /\ [][NextEval]_vars

\* ------------------------------------------------- threshold sweep
\* The thresholds of for (let t = 0.10; t <= 0.90; t += 0.01), as doubles:
\* 0.1, 0.11, 0.12, 0.13, 0.14, then sums that lie above the hundredth they
\* stand for (0.15000000000000002 ... 0.8900000000000007); the sum after
\* that, 0.9000000000000007, fails t <= 0.90.  The excess, at most 7e-16,
\* is kept as one millionth: below the distance of any threshold to any
\* probability of the model that differs from its hundredth.
ScanThresholds ==
  [i \in 1..80 |-> IF 9 + i < 15 THEN Rat(9 + i, 100)
                   ELSE RAdd(Rat(9 + i, 100), Rat(1, 1000000))]

\* +t.toFixed(2)
ToFixed2(t) == Rat(RRound(RMul(t, Num(100))), 100)

\* The loop of #autoThreshold over the thresholds, f1s[i] being the F1 of
\* threshold i: best starts as {thr: 0.5, f1: 0} and is replaced at every
\* threshold whose F1 is strictly greater than best.f1, that is, greater
\* than 0 and than the F1 of every threshold before it; the last of these
\* is the result.
Sweep(f1s) ==
  LET replaced == {i \in DOMAIN f1s :
                     /\ RLess(Num(0), f1s[i])
                     /\ \A j \in 1..(i - 1) : RLess(f1s[j], f1s[i])}
      last == CHOOSE i \in replaced : \A j \in replaced : j <= i
  IN  IF replaced = {} THEN [thr |-> Rat(1, 2), f1 |-> Num(0)]
      ELSE [thr |-> ToFixed2(ScanThresholds[last]), f1 |-> f1s[last]]

\* The best threshold and F1 #autoThreshold finds for labels yt and
\* predictions yp.
AutoThreshold(yt, yp) ==
  Sweep([i \in DOMAIN ScanThresholds |-> Scores(yt, yp, ScanThresholds[i]).f1])

\* Most rows of the test set of a threshold sweep.
MaxSweepRows == 2

\* App.#autoThreshold on a dataset whose test set has 1..MaxSweepRows rows,
\* the model predicting yp for it: one half exactly, a probability between
\* 0.89 and 0.90, or one above 0.90.  out holds the labels and predictions
\* and the best threshold and F1 found.
AppSweep ==
  /\ \E err \in {IF app.dataset.id = 0 THEN "Prepare & Train first."
                 ELSE Predict(gru, rt, app.dataset.id)} :
     \E yt \in UNION {[1..n -> {0, 1}] : n \in 1..MaxSweepRows} :
     \E yp \in [DOMAIN yt -> {Rat(1, 2), Rat(57, 64), Rat(15, 16)}] :
       out' = [op |-> "autoThreshold", err |-> err, arg |-> <<yt, yp>>,
               ret |-> IF err = "" THEN <<AutoThreshold(yt, yp)>> ELSE <<>>]
  /\ UNCHANGED <<gru, rt, fits, app, loaderVars>>

NextSweep == OnCSV \/ AppPrepare \/ AppBuild \/ AppSweep

SpecSweep == Init /\ [][NextSweep]_vars

\* ------------------------------------------------ configurations
\* A file is loaded into a fresh loader.
LoadCfg ==
  /\ load = "none"
  /\ \E file \in AppFiles : FromFile(file)
  /\ UNCHANGED <<gru, rt, fits, app, out>>

\* prepareTensors with augmentation on and the caller's test fraction,
\* targetRatio and noiseStd: below, at, inside and above their ranges, or
\* (NaN under Number()) not supplied.  out holds the three as supplied, and
\* the test fraction nTest is computed from and the ratio and the noise
\* handed to #augmentPositivesOnScaled.
PrepareCfg ==
  /\ load = "loaded"
  /\ \E ts \in {Num(0), Rat(1, 5), Num(1)} :
     \E tr \in {NaN, Num(0), Rat(1, 2), Num(1)} :
     \E ns \in {NaN, Num(0), Rat(1, 10), Num(1)} :
     \E augment \in {[enable |-> TRUE, targetRatio |-> tr, noiseStd |-> ns]} :
       /\ PrepareTensors(ts, augment, 0)
       /\ out' = [op |-> "prepareTensors", err |-> "",
                  arg |-> <<ts, tr, ns>>,
                  ret |-> <<ClampTestSplit(ts), AugTargetRatio(augment),
                            AugNoiseStd(augment)>>]
  /\ UNCHANGED <<gru, rt, fits, app>>

NextCfg == LoadCfg \/ PrepareCfg

SpecCfg == Init /\ [][NextCfg]_vars

\* ------------------------------------------------------------- claims
Prepared == prep.status \in {"ok", "tensor2d error"}

numDim == Len(baseNum) + Len(engineeredSpec)

NoDuplicates(seq) == \A a, b \in DOMAIN seq : seq[a] = seq[b] => a = b

\* C1: the train and test index lists of a preparation are disjoint, hold
\* no index twice, and together are exactly the row indices 0..N-1.
C1_SplitIsPartition ==
  Prepared =>
    /\ Range(prep.trainIdx) \cap Range(prep.testIdx) = {}
    /\ NoDuplicates(prep.trainIdx)
    /\ NoDuplicates(prep.testIdx)
    /\ Range(prep.trainIdx) \cup Range(prep.testIdx) = 0..(Len(prep.src) - 1)

\* A preparation of four rows or more with a test fraction that is clamped,
\* in which the shuffle moved a positive row and the test split holds two
\* rows or more.
C1_Witness ==
  /\ prep.status = "ok"
  /\ Len(prep.src) >= 4
  /\ Len(prep.testIdx) >= 2
  /\ prep.testSplit = Num(1)
  /\ \E k \in 1..(Len(prep.posIdx) - 1) : prep.posIdx[k] > prep.posIdx[k + 1]

\* C2: all preparations of the same loaded records with the same test
\* fraction, however many ran before and with or without augmentation,
\* yield the same ordered train and test index lists and the same scaler.
C2_Deterministic ==
  Prepared =>
    \A a, b \in prep.seen : a.testSplit = b.testSplit => a = b

\* A preparation with a test fraction used before on the same records, with
\* another fraction prepared in between or before, augmented this time, and
\* with a shuffle that moved a row.
C2_Witness ==
  /\ prep.status = "ok"
  /\ prep.again
  /\ prep.augment.enable
  /\ Cardinality(prep.seen) >= 2
  /\ \E k \in 1..(Len(prep.posIdx) - 1) : prep.posIdx[k] > prep.posIdx[k + 1]

\* The value of logs.val_loss as the claim reads it: NaN when missing.
ValLossOf(logs) == IF logs.val_loss = <<>> THEN NaN ELSE logs.val_loss[1]

\* The number of epochs at the end of the reported logs since the last
\* improvement, an improvement being a validation loss lower than the best
\* seen so far by more than the tolerance.
RECURSIVE StaleAfter(_, _, _)
StaleAfter(logs, best, stale) ==
  IF logs = <<>> THEN stale
  ELSE IF RLess(RAdd(ValLossOf(Head(logs)), Tolerance), best)
    THEN StaleAfter(Tail(logs), ValLossOf(Head(logs)), 0)
    ELSE StaleAfter(Tail(logs), best, stale + 1)

Stale(f) == StaleAfter(f.logs, Infinity, 0)

\* C3 as claimed: a fit is told to stop at the end of the first epoch that
\* completes `patience` epochs in a row without a validation-loss
\* improvement, so no fit is ever more than `patience` epochs past its last
\* improvement.
C3_StopsAfterPatience ==
  \A f \in fits :
    /\ Stale(f) <= f.patience
    /\ Stale(f) >= f.patience => f.m \in rt.stop

\* C4 as claimed: the history of a fit has one training loss and one
\* validation loss per epoch run, entry i being what epoch i reported.
C4_HistoryEntryPerEpoch ==
  \A f \in fits :
    /\ Len(f.hist.loss) = f.epoch
    /\ Len(f.hist.val_loss) = f.epoch
    /\ \A i \in 1..f.epoch : f.hist.val_loss[i] = ValLossOf(f.logs[i])

\* C5 as claimed: at most one fit call on the classifier has not returned.
C5_OneFitInFlight == Cardinality(fits) <= 1

\* C6 as claimed: no fit, predict or evaluate runs on a disposed tensor or
\* model.
C6_NoReadOfDisposed == out.err # DisposedError

\* One call of the classifier made without what it needs: fit, predict and
\* evaluate without a model, build with features or timesteps that are not
\* positive integers.  It ends with the error and leaves the classifier,
\* the runtime and the fits in flight as they were.
FailsAndChangesNothing ==
  /\ (out'.op \in {"fit", "predict", "evaluate"} /\ gru.model = 0)
       => out'.err \in NoModelErrors
  /\ (/\ out'.op = "build"
      /\ ~(/\ PositiveInteger(out'.arg[1].features)
           /\ PositiveInteger(TimestepsOf(out'.arg[1]))))
       => out'.err \in InvalidErrors
  /\ out'.err \in NoModelErrors \cup InvalidErrors
       => (gru' = gru /\ rt' = rt /\ fits' = fits)

\* C7: configuration errors are raised by the failing call itself and
\* change nothing.
C7_ConfigErrorsChangeNothing == [][FailsAndChangesNothing]_vars

\* A build with a bad configuration failed on a classifier that holds a
\* live model.
C7_Witness ==
  /\ out.op = "build"
  /\ out.err \in InvalidErrors
  /\ gru.model # 0
  /\ gru.model \notin rt.disposed

\* C8 as claimed: whenever loading succeeds the header has an Attrition
\* column and at least one record has been loaded.
C8_LoadedHasLabelAndRecord ==
  load = "loaded" => (labelKey \in Range(dl.headers) /\ Len(dl.raw) >= 1)

\* C9, within one preparation: with augmentation enabled the training
\* matrix and labels start with the scaled original rows and labels, and
\* every further row has label 1 and the one-hot dimensions of an original
\* positive training row.
AugmentedAppends ==
  (prep.status = "ok" /\ prep.augment.enable) =>
    /\ Len(prep.xTrain) >= Len(prep.XtrS)
    /\ Len(prep.yTrain) = Len(prep.xTrain)
    /\ SubSeq(prep.xTrain, 1, Len(prep.XtrS)) = prep.XtrS
    /\ SubSeq(prep.yTrain, 1, Len(prep.ytr)) = prep.ytr
    /\ \A k \in (Len(prep.XtrS) + 1)..Len(prep.xTrain) :
         /\ prep.yTrain[k] = <<1>>
         /\ \E p \in DOMAIN prep.XtrS :
              /\ prep.ytr[p] = <<1>>
              /\ \A d \in (numDim + 1)..Len(prep.xTrain[k]) :
                   prep.xTrain[k][d] = prep.XtrS[p][d]

\* C9, against the preparation before it: enabling augmentation keeps the
\* rows got without it at the head of the training set and leaves the test
\* matrix, test labels and test meta rows as they were.
AugmentedKeepsPlain ==
  (/\ prep.status = "ok"
   /\ prep'.status = "ok"
   /\ prep'.src = prep.src
   /\ prep'.testSplit = prep.testSplit
   /\ ~prep.augment.enable
   /\ prep'.augment.enable)
    => (/\ SubSeq(prep'.xTrain, 1, Len(prep.xTrain)) = prep.xTrain
        /\ SubSeq(prep'.yTrain, 1, Len(prep.yTrain)) = prep.yTrain
        /\ prep'.xTest = prep.xTest
        /\ prep'.yTest = prep.yTest
        /\ prep'.testMeta = prep.testMeta)

\* C9: augmentation is append-only and confined to the training partition.
C9_AugmentationAppendOnly == []AugmentedAppends /\ [][AugmentedKeepsPlain]_vars

\* An augmented preparation after another of the same records that added
\* more synthetic rows than there are positive rows to copy, on data with
\* one-hot dimensions.
C9_Witness ==
  /\ prep.status = "ok"
  /\ prep.augment.enable
  /\ prep.prevSrc = prep.src
  /\ Len(prep.xTrain[1]) > numDim
  /\ Len(prep.xTrain) - Len(prep.XtrS) >
       Cardinality({p \in DOMAIN prep.ytr : prep.ytr[p] = <<1>>})
  /\ \E p \in DOMAIN prep.ytr : prep.ytr[p] = <<1>>
  /\ \E p \in DOMAIN prep.ytr : prep.ytr[p] = <<0>>

\* Records b differ from records a only in numeric attributes of rows of
\* the test split.
NumericTestEdit(a, b, testIdx) ==
  /\ Len(a) = Len(b)
  /\ a # b
  /\ \A i \in DOMAIN a :
       /\ DOMAIN a[i] = DOMAIN b[i]
       /\ a[i] # b[i] => (i - 1) \in Range(testIdx)
       /\ \A c \in DOMAIN a[i] \cap ({labelKey} \cup Range(catKnown)) : a[i][c] = b[i][c]

\* C10, against the preparation before it: records that differ only in
\* numeric attributes of test rows get the same scaler and the same scaled
\* training matrix.
TestRowsDoNotLeak ==
  (/\ prep.status = "ok"
   /\ prep'.status = "ok"
   /\ prep'.testSplit = prep.testSplit
   /\ NumericTestEdit(prep.src, prep'.src, prep.testIdx))
    => (/\ dl'.scaler = dl.scaler
        /\ prep'.XtrS = prep.XtrS
        /\ prep'.xTrain = prep.xTrain)

\* C10, within one preparation: the test matrix is the test rows under the
\* fitted scaler.
TestUsesFittedScaler ==
  Prepared => prep.xTest = ApplyScaler(prep.Xte, dl.scaler[1])

\* C10: the scaler is fitted on the training partition only and the test
\* matrix is transformed with the fitted statistics.
C10_ScalerFitOnTrainOnly == []TestUsesFittedScaler /\ [][TestRowsDoNotLeak]_vars

\* A preparation of records that differ from those of the preparation
\* before it in a numeric attribute of a test row only.
C10_Witness ==
  /\ prep.status = "ok"
  /\ prep.prevSrc # <<>>
  /\ Len(prep.trainIdx) >= 2
  /\ NumericTestEdit(prep.prevSrc, prep.src, prep.testIdx)


\* The record with every base numeric attribute that is missing or not a
\* finite number set to 0.
OffendingAsZero(r) ==
  [c \in DOMAIN r \cup Range(baseNum) |->
     IF c \in Range(baseNum) /\ (c \notin DOMAIN r \/ ~IsFinite(ToNumber(r[c])))
       THEN "0" ELSE r[c]]

\* C11: every base numeric and engineered component of a record's feature
\* vector is a finite number, the one the record gives with its missing
\* or non-numeric base attributes taken as 0.
C11_DefaultsToZero ==
  out.op = "rowToFeatures" =>
    \A k \in 1..numDim :
      /\ IsFinite(out.ret[1].v[k])
      /\ out.ret[1].v[k] =
           RowToFeatures(OffendingAsZero(out.arg[1]), out.arg[2], out.arg[3]).v[k]


\* The rows of a test set are ranked perfectly: every positive row has a
\* strictly higher predicted probability than every negative row.
PerfectRanking(yt, yp) ==
  \A i, j \in DOMAIN yt : (yt[i] = 1 /\ yt[j] = 0) => RLess(yp[j], yp[i])

Evaluated == out.op = "evaluate" /\ out.err = ""

\* C12 as stated: the AUC evaluate returns for a perfectly ranked test set
\* is 1.
C12_PerfectRankingAucOne ==
  (Evaluated /\ PerfectRanking(out.arg[1], out.arg[2])) => out.ret[1].auc = Num(1)

\* C12 amended: the AUC evaluate returns for a perfectly ranked test set
\* with at least one positive row is 1.
C12_PerfectRankingWithPositive ==
  (/\ Evaluated
   /\ PerfectRanking(out.arg[1], out.arg[2])
   /\ \E i \in DOMAIN out.arg[1] : out.arg[1][i] = 1)
    => out.ret[1].auc = Num(1)

\* An evaluation of a perfectly ranked test set with two positive rows and
\* a negative row between them.
C12_Witness ==
  /\ Evaluated
  /\ PerfectRanking(out.arg[1], out.arg[2])
  /\ out.arg[1] = <<1, 0, 1>>
  /\ out.ret[1].auc = Num(1)


\* The rows of the prepared records with label 1, as 0-based indices.
PositiveRows == {i - 1 : i \in {j \in DOMAIN prep.src : AttritionOf(prep.src[j][labelKey]) = 1}}

AllRows == {i - 1 : i \in DOMAIN prep.src}

\* floor(N * f) for the prepared records and the clamped test fraction.
FlooredTestSize == RFloor(RMul(Num(Len(prep.src)), ClampTestSplit(prep.testSplit)))

\* C13, all but the size of the test set: it draws no more positive rows
\* and no more negative rows than there are, and the remaining rows form
\* the training set.
DrawnWithinBuckets ==
  /\ Cardinality(Range(prep.testIdx) \cap PositiveRows) <= Cardinality(PositiveRows)
  /\ Cardinality(Range(prep.testIdx) \ PositiveRows) <= Cardinality(AllRows \ PositiveRows)
  /\ Range(prep.testIdx) \subseteq AllRows
  /\ Range(prep.trainIdx) = AllRows \ Range(prep.testIdx)
  /\ Len(prep.trainIdx) = Len(prep.src) - Len(prep.testIdx)

\* C13 as stated: the test set of a preparation has exactly floor(N * f)
\* rows, f the clamped test fraction, draws no more rows of a class than the
\* class has, and the remaining rows form the training set.
C13_TestSizeIsFloor ==
  Prepared => (Len(prep.testIdx) = FlooredTestSize /\ DrawnWithinBuckets)

\* C13 amended: the test set has exactly max(1, floor(N * f)) rows.
C13_TestSizeIsFloorAtLeastOne ==
  Prepared => (Len(prep.testIdx) = IMax(1, FlooredTestSize) /\ DrawnWithinBuckets)

\* A preparation of four records of both classes at the fraction 0.9: the
\* test set has three rows, of both classes.
C13_Witness ==
  /\ Prepared
  /\ Len(prep.src) = 4
  /\ FlooredTestSize = 3
  /\ Len(prep.testIdx) = 3
  /\ Range(prep.testIdx) \cap PositiveRows # {}
  /\ Range(prep.testIdx) \ PositiveRows # {}


\* The F1 of the predictions yp >= k/100 against the labels yt, for each
\* hundredth k of 10..90.
F1ByHundredth(yt, yp) == [k \in 10..90 |-> Scores(yt, yp, Rat(k, 100)).f1]

\* The smallest hundredth of 10..90 whose F1, in f, is the greatest.
FirstBest(f) ==
  CHOOSE k \in 10..90 :
    /\ \A j \in 10..90 : ~RLess(f[k], f[j])
    /\ \A j \in 10..(k - 1) : RLess(f[j], f[k])

\* C14: the threshold #autoThreshold returns is the smallest of 0.10, 0.11,
\* ..., 0.90 that attains the greatest F1 over them, and the F1 it returns
\* is that greatest F1.
C14_SmallestBestThreshold ==
  (out.op = "autoThreshold" /\ out.err = "") =>
    \E f \in {F1ByHundredth(out.arg[1], out.arg[2])} :
    \E k \in {FirstBest(f)} :
      /\ out.ret[1].thr = Rat(k, 100)
      /\ out.ret[1].f1 = f[k]

\* Where the block of the k-th categorical column starts in a feature
\* vector: after the numeric part and the blocks of the columns before it.
BlockStart(catCols, encoders, k) ==
  numDim + Len(Flatten([j \in 1..(k - 1) |-> encoders[catCols[j]]]))

\* C15: in a record's feature vector the block of every categorical column
\* has 1 at the index the encoder gives the record's value and 0 elsewhere
\* when the record has a value, and is all zeros when the field is empty or
\* the value is not in the encoder.
C15_OneHotBlocks ==
  out.op = "rowToFeatures" =>
    \A k \in DOMAIN out.arg[2] :
      \E enc \in {out.arg[3][out.arg[2][k]]} :
      \E val \in {StringField(out.arg[1], out.arg[2][k])} :
      \E start \in {BlockStart(out.arg[2], out.arg[3], k)} :
        \A i \in DOMAIN enc :
          out.ret[1].v[start + i] =
            IF val # "" /\ enc[i] = val THEN Num(1) ELSE Num(0)


\* A requested value clamped to [lo, hi]; the default when none is supplied.
ClampedOrDefault(x, lo, hi, dflt) ==
  IF x.nan THEN dflt ELSE IF RLess(x, lo) THEN lo ELSE IF RLess(hi, x) THEN hi ELSE x

\* C16: the test fraction, the augmentation ratio and the augmentation
\* noise a preparation uses are the requested values clamped to [0.05, 0.9],
\* [0.2, 0.8] and [0, 0.2]; the defaults 0.5 and 0.05 are used only when
\* no value is supplied.
C16_OnlyClamped ==
  out.op = "prepareTensors" =>
    /\ out.ret[1] = ClampedOrDefault(out.arg[1], Rat(5, 100), Rat(9, 10), Rat(1, 5))
    /\ out.ret[2] = ClampedOrDefault(out.arg[2], Rat(2, 10), Rat(8, 10), Rat(1, 2))
    /\ out.ret[3] = ClampedOrDefault(out.arg[3], Num(0), Rat(2, 10), Rat(5, 100))

=============================================================================
